---- MODULE Spec2Model ----
(***************************************************************************)
(* Model of constellate's credential pipeline (src/jwt.js): header         *)
(* builders, claims builders, signClaims, validateClaims and verifyClaims. *)
(*                                                                         *)
(* JS objects are TLA+ functions whose DOMAIN is the set of own            *)
(* properties, so "property absent" is "key not in DOMAIN".  Buffers are   *)
(* records [length, bytes(, prefix)], base64url strings are records        *)
(* [chars, bytes].  Digests, addresses and signatures are modelled as      *)
(* collision-free / unforgeable (the value records what was hashed or      *)
(* signed).                                                                *)
(***************************************************************************)
EXTENDS Integers, Sequences, FiniteSets, TLC

VARIABLES now, phase, key, built, claims, header, meta, schemaClaims,
          schemaMeta, signature, orig, result

vars == <<now, phase, key, built, claims, header, meta, schemaClaims,
          schemaMeta, signature, orig, result>>

(***************************************************************************)
(* Bounds                                                                  *)
(***************************************************************************)
MaxTime == 2
NumKeys == 3

(***************************************************************************)
(* Program constants                                                       *)
(***************************************************************************)
Ed25519KeyLength == 32
Secp256k1KeyLength == 33
Base64Chars == 43

EmptyObject == [k \in {} |-> 0]

Times == 0..MaxTime
Keys == 1..NumKeys

(***************************************************************************)
(* External collaborators (lib/util.js, lib/party.js, lib/ed25519.js,      *)
(* lib/secp256k1.js, lib/meta.js, lib/schema.js)                           *)
(***************************************************************************)
IsBuffer(v) == "length" \in DOMAIN v

\* base64url without padding: n bytes -> ceil(4n/3) characters
encodeBase64(v) ==
  IF IsBuffer(v)
    THEN [chars |-> (4 * v.length + 2) \div 3, bytes |-> v.bytes]
    ELSE [json |-> v]

decodeBase64(s) == [length |-> (3 * s.chars) \div 4, bytes |-> s.bytes]

withoutKeys(obj, k) == [f \in DOMAIN obj \ {k} |-> obj[f]]

calcId(k, obj) == [hash |-> withoutKeys(obj, k)]

calcMetaId(m) == calcId("@id", m)

publicKey2Addr(publicKey) == [addr |-> publicKey]

\* odd key numbers are ed25519 keypairs, even ones secp256k1 keypairs
Curve(k) == IF k % 2 = 1 THEN "Ed25519" ELSE "secp256k1"

PublicKey(k) ==
  IF Curve(k) = "Ed25519"
    THEN [length |-> Ed25519KeyLength, bytes |-> k]
    ELSE [length |-> Secp256k1KeyLength, bytes |-> k, prefix |-> 2 + ((k \div 2) % 2)]

SecretKey(k) == [secret |-> k]

Addr(k) == publicKey2Addr(PublicKey(k))

Addrs == {Addr(k) : k \in Keys}

secp256k1_uncompress(publicKey) ==
  [x |-> [length |-> 32, bytes |-> publicKey.bytes],
   y |-> [length |-> 32, bytes |-> 2 * publicKey.bytes + (publicKey.prefix - 2)]]

secp256k1_compress(x, y) ==
  [length |-> Secp256k1KeyLength, bytes |-> x.bytes, prefix |-> 2 + (y.bytes % 2)]

ed25519_sign(message, secretKey) ==
  [scheme |-> "ed25519", message |-> message, secretKey |-> secretKey]

secp256k1_sign(message, secretKey) ==
  [scheme |-> "secp256k1", message |-> message, secretKey |-> secretKey]

ed25519_verify(message, publicKey, sig) ==
  \E k \in Keys : /\ Curve(k) = "Ed25519"
                  /\ PublicKey(k) = publicKey
                  /\ sig = ed25519_sign(message, SecretKey(k))

secp256k1_verify(message, publicKey, sig) ==
  \E k \in Keys : /\ Curve(k) = "secp256k1"
                  /\ PublicKey(k) = publicKey
                  /\ sig = secp256k1_sign(message, SecretKey(k))

EmptyBuffer == [length |-> 0]

(***************************************************************************)
(* Metadata documents (test fixtures album, composition, recording) and    *)
(* the schemas a caller can pass                                           *)
(***************************************************************************)
Doc(type, fields) == ("@type" :> type) @@ fields

album == Doc("Album", [artist |-> <<Addr(2)>>])
composition == Doc("Composition", [composer |-> <<Addr(1)>>, lyricist |-> <<Addr(2)>>])
recording == Doc("Recording", [performer |-> <<Addr(2)>>, producer |-> <<>>])
playlist == Doc("Playlist", [curator |-> <<Addr(1)>>])

Metas == {album, composition, recording, playlist}

\* "{}" is the empty JSON schema, which accepts every document
MetaSchemas == {"Album", "Composition", "Recording", "{}"}

validateMeta(m, schema) == schema = "{}" \/ m["@type"] = schema

validateSchemaPattern(s) == s.chars = Base64Chars

(***************************************************************************)
(* Schemas of src/jwt.js, evaluated as the JSON-schema validator does      *)
(***************************************************************************)
OneOf(a, b) == (a /\ ~b) \/ (~a /\ b)

validatePublicKey(jwk) ==
  /\ {"crv", "kty", "x"} \subseteq DOMAIN jwk
  /\ validateSchemaPattern(jwk.x)
  /\ OneOf(jwk.crv = "Ed25519" /\ jwk.kty = "OKP",
           /\ jwk.crv = "P-256"
           /\ jwk.kty = "EC"
           /\ "y" \in DOMAIN jwk
           /\ validateSchemaPattern(jwk.y))

validateHeader(h) ==
  /\ {"alg", "jwk", "typ"} \subseteq DOMAIN h
  /\ h.alg \in {"EdDsa", "ES256"}
  /\ validatePublicKey(h.jwk)
  /\ h.typ = "JWT"
  /\ OneOf(h.alg = "EdDsa" /\ h.jwk.crv = "Ed25519",
           h.alg = "ES256" /\ h.jwk.crv = "P-256")

Create(c) ==
  /\ {"iat", "iss", "jti", "sub", "typ"} \subseteq DOMAIN c
  /\ c.typ = "Create"

License(c) ==
  /\ {"aud", "exp", "iat", "iss", "jti", "sub", "typ"} \subseteq DOMAIN c
  /\ Len(c.aud) >= 1
  /\ \A i, j \in DOMAIN c.aud : c.aud[i] = c.aud[j] => i = j
  /\ c.typ = "License"

ClaimsSchemas == {"Create", "License"}

validateSchema(c, schema) == IF schema = "Create" THEN Create(c) ELSE License(c)

(***************************************************************************)
(* Claims builders                                                         *)
(***************************************************************************)
calcClaimsId(c) == calcId("jti", c)

setClaimsId(c) == [jti |-> calcClaimsId(c)] @@ c

timestamp(c, t) == [iat |-> t] @@ c

(***************************************************************************)
(* Header builders: both catch their own error, log it and return header   *)
(***************************************************************************)
ed25519Header(publicKey) ==
  IF publicKey.length # Ed25519KeyLength
    THEN EmptyObject
    ELSE [alg |-> "EdDsa",
          jwk |-> [x |-> encodeBase64(publicKey), crv |-> "Ed25519", kty |-> "OKP"],
          typ |-> "JWT"]

secp256k1Header(publicKey) ==
  IF publicKey.length # Secp256k1KeyLength
    THEN EmptyObject
    ELSE LET coords == secp256k1_uncompress(publicKey)
         IN  [alg |-> "ES256",
              jwk |-> [x |-> encodeBase64(coords.x), y |-> encodeBase64(coords.y),
                       crv |-> "P-256", kty |-> "EC"],
              typ |-> "JWT"]

BuilderKinds == {"ed25519Header", "secp256k1Header"}

buildHeader(kind, publicKey) ==
  IF kind = "ed25519Header" THEN ed25519Header(publicKey) ELSE secp256k1Header(publicKey)

\* what the caller of a builder gets: always a returned object, never a throw
builderOutcome(kind, publicKey) ==
  [builder |-> kind, publicKey |-> publicKey, outcome |-> "returned",
   value |-> buildHeader(kind, publicKey),
   logged |-> IF buildHeader(kind, publicKey) = EmptyObject THEN "InvalidKeyLength" ELSE "none"]

(***************************************************************************)
(* signClaims                                                              *)
(***************************************************************************)
Alg(h) == IF "alg" \in DOMAIN h THEN h.alg ELSE "undefined"

signingInput(c, h) == <<encodeBase64(h), encodeBase64(c)>>

\* slip: the header is left out of the signed message
signClaims_PayloadOnly(c, h, secretKey) ==
  IF Alg(h) = "EdDsa" THEN ed25519_sign(<<encodeBase64(c)>>, secretKey)
  ELSE IF Alg(h) = "ES256" THEN secp256k1_sign(<<encodeBase64(c)>>, secretKey)
  ELSE EmptyBuffer

signClaims(c, h, secretKey) ==
  IF Alg(h) = "EdDsa" THEN ed25519_sign(signingInput(c, h), secretKey)
  ELSE IF Alg(h) = "ES256" THEN secp256k1_sign(signingInput(c, h), secretKey)
  ELSE EmptyBuffer

(***************************************************************************)
(* validateClaims: the checks in source order; each operator is the        *)
(* condition under which the corresponding `throw` is executed             *)
(***************************************************************************)
Has(obj, f) == f \in DOMAIN obj

\* JS truthiness of an integer-or-absent property: undefined and 0 are falsy
Truthy(obj, f) == Has(obj, f) /\ obj[f] # 0

iatLaterThanNow(c, t) == c.iat > t

\* slip: only the first audience entry is compared
audContainsIss_FirstOnly(c) == Has(c, "aud") /\ Len(c.aud) >= 1 /\ c.aud[1] = c.iss

audContainsIss(c) == Has(c, "aud") /\ \E i \in DOMAIN c.aud : c.aud[i] = c.iss

expNotAfterIat(c) == c.exp <= c.iat

expNotAfterNbf(c) == Truthy(c, "nbf") /\ c.exp <= c.nbf

\* slip: non-strict comparison
claimsExpired_Inclusive(c, rightNow) == c.exp <= rightNow

\* slip: expiry is never checked
claimsExpired_Never(c, rightNow) == FALSE

claimsExpired(c, rightNow) == c.exp < rightNow

nbfNotAfterIat(c) == c.nbf <= c.iat

claimsNotYetValid(c, rightNow) == c.nbf > rightNow

concat(a, b) == a \o b

some(arr, v) == \E i \in DOMAIN arr : arr[i] = v

\* slip: only the Album case throws
roleCheck_AlbumOnly(c, m) ==
  IF m["@type"] = "Album" /\ ~some(m.artist, c.iss) THEN "UnauthorizedIssuer" ELSE "ok"

\* the switch on meta['@type']: "ok", or the kind of the error thrown
roleCheck(c, m) ==
  CASE m["@type"] = "Album" ->
         IF ~some(m.artist, c.iss) THEN "UnauthorizedIssuer" ELSE "ok"
    [] m["@type"] = "Composition" ->
         IF ~some(concat(m.composer, m.lyricist), c.iss) THEN "UnauthorizedIssuer" ELSE "ok"
    [] m["@type"] = "Recording" ->
         IF ~some(concat(m.performer, m.producer), c.iss) THEN "UnauthorizedIssuer" ELSE "ok"
    [] OTHER -> "UnsupportedMetadataType"

\* kind of the error thrown inside the try block once validateMeta passed,
\* "ok" when the block runs to `valid = true`
validateClaimsThrown(c, m, schema, t) ==
  LET rightNow == t IN
  IF ~validateSchema(c, schema) THEN "SchemaViolation"
  ELSE IF c.typ \notin {"Create", "License"} THEN "UnsupportedType"
  ELSE IF iatLaterThanNow(c, t) THEN "FutureIssuance"
  ELSE IF audContainsIss(c) THEN "SelfAudience"
  ELSE IF Truthy(c, "exp") /\ expNotAfterIat(c) THEN "ExpBeforeIat"
  ELSE IF Truthy(c, "exp") /\ expNotAfterNbf(c) THEN "ExpBeforeNbf"
  ELSE IF Truthy(c, "exp") /\ claimsExpired(c, rightNow) THEN "Expired"
  ELSE IF Truthy(c, "nbf") /\ nbfNotAfterIat(c) THEN "NbfBeforeIat"
  ELSE IF Truthy(c, "nbf") /\ claimsNotYetValid(c, rightNow) THEN "NotYetValid"
  ELSE IF c.jti # calcClaimsId(c) THEN "IdentifierMismatch"
  ELSE IF c.sub # calcMetaId(m) THEN "SubjectMismatch"
  ELSE roleCheck(c, m)

\* what console.error receives from validateClaims ("none": nothing logged)
validateClaimsLogged(c, m, schema, schemaM, t) ==
  IF validateMeta(m, schemaM)
    THEN LET thrown == validateClaimsThrown(c, m, schema, t)
         IN  IF thrown = "ok" THEN "none" ELSE thrown
    ELSE "none"

validateClaims(c, m, schema, schemaM, t) ==
  validateMeta(m, schemaM) /\ validateClaimsThrown(c, m, schema, t) = "ok"

(***************************************************************************)
(* verifyClaims                                                            *)
(***************************************************************************)
headerPublicKey(h) ==
  IF h.alg = "EdDsa"
    THEN decodeBase64(h.jwk.x)
    ELSE secp256k1_compress(decodeBase64(h.jwk.x), decodeBase64(h.jwk.y))

\* slip: the issuer is never compared with the header's key
keyMatchesIssuer_Skipped(c, h) == TRUE

keyMatchesIssuer(c, h) == c.iss = publicKey2Addr(headerPublicKey(h))

\* slip: the result of the curve's verify is ignored
signatureVerifies_Skipped(c, h, sig) == TRUE

signatureVerifies(c, h, sig) ==
  IF h.alg = "EdDsa"
    THEN ed25519_verify(signingInput(c, h), headerPublicKey(h), sig)
    ELSE secp256k1_verify(signingInput(c, h), headerPublicKey(h), sig)

\* kind of the error thrown by verifyClaims itself, "ok" when none is
verifyClaimsThrown(c, h, m, schema, schemaM, sig, t) ==
  IF ~validateHeader(h) THEN "InvalidHeader"
  ELSE IF ~validateClaims(c, m, schema, schemaM, t) THEN "ok"
  ELSE IF ~keyMatchesIssuer(c, h) THEN "KeyIssuerMismatch"
  ELSE IF ~signatureVerifies(c, h, sig) THEN "BadSignature"
  ELSE "ok"

verifyClaims(c, h, m, schema, schemaM, sig, t) ==
  /\ validateHeader(h)
  /\ validateClaims(c, m, schema, schemaM, t)
  /\ verifyClaimsThrown(c, h, m, schema, schemaM, sig, t) = "ok"

\* what console.error receives during one verifyClaims call
verifyClaimsLogged(c, h, m, schema, schemaM, sig, t) ==
  LET thrown == verifyClaimsThrown(c, h, m, schema, schemaM, sig, t)
  IN  IF thrown # "ok" THEN thrown
      ELSE IF validateHeader(h) THEN validateClaimsLogged(c, m, schema, schemaM, t)
      ELSE "none"

(***************************************************************************)
(* Credential life cycle: build a header for a keypair, issue a            *)
(* credential, let time pass, verify, tamper with an accepted credential   *)
(***************************************************************************)
NoResult == [op |-> "none"]

getMetaId(m) == calcMetaId(m)

\* the schema a caller passes along with a document (as in test/jwt_test.js)
SchemaOf(m) ==
  IF m["@type"] \in {"Album", "Composition", "Recording"} THEN m["@type"] ELSE "{}"

AudChoices == {<<Addr(3)>>, <<Addr(1), Addr(2)>>}

\* base objects handed to timestamp/setClaimsId at clock value t
CreateBases(m) ==
  {[iss |-> a, sub |-> getMetaId(m), typ |-> "Create"] : a \in Addrs}

LicenseBases(m, t) ==
  {[aud |-> au, exp |-> e, iss |-> a, sub |-> getMetaId(m), typ |-> "License"] :
      au \in AudChoices, e \in (t + 1)..MaxTime, a \in Addrs}
  \cup
  {[aud |-> au, exp |-> e, nbf |-> t + 1, iss |-> a, sub |-> getMetaId(m), typ |-> "License"] :
      au \in AudChoices, e \in (t + 2)..MaxTime, a \in Addrs}

Init ==
  /\ now = 0
  /\ phase = "idle"
  /\ key = 0
  /\ built = NoResult
  /\ claims = EmptyObject
  /\ header = EmptyObject
  /\ meta = EmptyObject
  /\ schemaClaims = "Create"
  /\ schemaMeta = "{}"
  /\ signature = EmptyBuffer
  /\ orig = EmptyObject
  /\ result = NoResult

\* const h = ed25519Header(keypair.publicKey) / secp256k1Header(keypair.publicKey)
BuildHeader(kind, k) ==
  /\ phase = "idle"
  /\ built' = builderOutcome(kind, PublicKey(k))
  /\ header' = buildHeader(kind, PublicKey(k))
  /\ key' = k
  /\ phase' = "keyed"
  /\ UNCHANGED <<now, claims, meta, schemaClaims, schemaMeta, signature, orig, result>>

\* c = setClaimsId(timestamp(base)); sig = signClaims(c, h, secretKey)
Issue(base, m) ==
  /\ phase = "keyed"
  /\ claims' = setClaimsId(timestamp(base, now))
  /\ signature' = signClaims(claims', header, SecretKey(key))
  /\ meta' = m
  /\ schemaClaims' = base.typ
  /\ schemaMeta' = SchemaOf(m)
  /\ phase' = "issued"
  /\ UNCHANGED <<now, key, built, header, orig, result>>

\* the clock only moves forward
Tick ==
  /\ now < MaxTime
  /\ now' = now + 1
  /\ UNCHANGED <<phase, key, built, claims, header, meta, schemaClaims,
                 schemaMeta, signature, orig, result>>

Verify ==
  /\ phase \in {"issued", "tampered"}
  /\ result' = [op |-> "verifyClaims", at |-> now,
                verified |-> verifyClaims(claims, header, meta, schemaClaims,
                                           schemaMeta, signature, now),
                logged |-> verifyClaimsLogged(claims, header, meta, schemaClaims,
                                              schemaMeta, signature, now)]
  /\ UNCHANGED <<now, phase, key, built, claims, header, meta, schemaClaims,
                 schemaMeta, signature, orig>>

Accepted ==
  /\ phase = "issued"
  /\ result.op = "verifyClaims"
  /\ result.verified

FieldValues(f) ==
  CASE f = "iss" -> Addrs
    [] f \in {"exp", "iat", "nbf"} -> 0..(MaxTime + 1)
    [] f = "sub" -> {getMetaId(m) : m \in Metas}
    [] f = "aud" -> AudChoices \cup {<<a>> : a \in Addrs}
    [] f = "typ" -> {"Create", "License"}
    [] f = "jti" -> {calcClaimsId(EmptyObject), calcClaimsId(withoutKeys(claims, "iat"))}

ForgedSignatures ==
  {EmptyBuffer, signClaims(withoutKeys(claims, "jti"), header, SecretKey(key))}
  \cup {signClaims(claims, header, SecretKey(k)) : k \in Keys}
  \cup {signClaims(claims, buildHeader(kind, PublicKey(k)), SecretKey(k)) :
          kind \in BuilderKinds, k \in Keys}

\* an accepted credential has one claims field changed
TamperClaims(f, v) ==
  /\ Accepted
  /\ f \in DOMAIN claims
  /\ v # claims[f]
  /\ orig' = [claims |-> claims, signature |-> signature]
  /\ claims' = [claims EXCEPT ![f] = v]
  /\ phase' = "tampered"
  /\ result' = NoResult
  /\ UNCHANGED <<now, key, built, header, meta, schemaClaims, schemaMeta, signature>>

\* an accepted credential has its signature replaced
TamperSignature(sig) ==
  /\ Accepted
  /\ sig # signature
  /\ orig' = [claims |-> claims, signature |-> signature]
  /\ signature' = sig
  /\ phase' = "tampered"
  /\ result' = NoResult
  /\ UNCHANGED <<now, key, built, claims, header, meta, schemaClaims, schemaMeta>>

Next ==
  \/ \E kind \in BuilderKinds, k \in Keys : BuildHeader(kind, k)
  \/ \E m \in Metas : \E base \in CreateBases(m) \cup LicenseBases(m, now) : Issue(base, m)
  \/ Tick
  \/ Verify
  \/ \E f \in {"aud", "exp", "iat", "iss", "jti", "nbf", "sub", "typ"} :
       \E v \in FieldValues(f) : TamperClaims(f, v)
  \/ \E sig \in ForgedSignatures : TamperSignature(sig)

Spec == Init /\ [][Next]_vars

(***************************************************************************)
(* validateClaims / verifyClaims applied to arbitrary caller input         *)
(***************************************************************************)
Opt(f, S) == {EmptyObject} \cup {f :> v : v \in S}

UnidentifiedClaims ==
  {a @@ e @@ n @@ c :
     a \in Opt("aud", AudChoices), e \in Opt("exp", Times), n \in Opt("nbf", Times),
     c \in [iat : Times, iss : Addrs, sub : {getMetaId(album), getMetaId(composition)},
            typ : {"Create", "License"}]}

ClaimsInputs ==
  UNION {{[jti |-> j] @@ c : j \in {calcClaimsId(c), calcClaimsId(EmptyObject)}} :
           c \in UnidentifiedClaims}

\* each document with the schema of its own type, and one mismatched pair
MetaInputs == {<<m, SchemaOf(m)>> : m \in Metas} \cup {<<composition, "Album">>}

\* alg and jwk.crv disagree
mixedHeader ==
  [alg |-> "EdDsa", jwk |-> secp256k1Header(PublicKey(2)).jwk, typ |-> "JWT"]

\* header/signer pairs: every builder result with its own keypair
HeaderInputs ==
  {<<buildHeader(kind, PublicKey(k)), k>> : kind \in BuilderKinds, k \in Keys}
  \cup {<<mixedHeader, 2>>}

InitInputs ==
  /\ now \in Times
  /\ phase = "input"
  /\ key = 0
  /\ built = NoResult
  /\ claims \in ClaimsInputs
  /\ header = EmptyObject
  /\ \E mi \in MetaInputs : meta = mi[1] /\ schemaMeta = mi[2]
  /\ schemaClaims \in ClaimsSchemas
  /\ signature = EmptyBuffer
  /\ orig = EmptyObject
  /\ result = NoResult

Validate ==
  /\ phase = "input"
  /\ phase' = "validated"
  /\ result' = [op |-> "validateClaims", at |-> now,
                valid |-> validateClaims(claims, meta, schemaClaims, schemaMeta, now),
                logged |-> validateClaimsLogged(claims, meta, schemaClaims, schemaMeta, now)]
  /\ UNCHANGED <<now, key, built, claims, header, meta, schemaClaims,
                 schemaMeta, signature, orig>>

\* verifyClaims with header h and either the signature of keypair k over
\* (h, claims) or an empty signature
VerifyWith(h, k, signed) ==
  /\ phase = "input"
  /\ phase' = "verified"
  /\ header' = h
  /\ signature' = IF signed THEN signClaims(claims, h, SecretKey(k)) ELSE EmptyBuffer
  /\ key' = k
  /\ result' = [op |-> "verifyClaims", at |-> now,
                verified |-> verifyClaims(claims, h, meta, schemaClaims,
                                           schemaMeta, signature', now),
                logged |-> verifyClaimsLogged(claims, h, meta, schemaClaims,
                                              schemaMeta, signature', now)]
  /\ UNCHANGED <<now, built, claims, meta, schemaClaims, schemaMeta, orig>>

NextInputs ==
  \/ Validate
  \/ \E hk \in HeaderInputs, signed \in BOOLEAN : VerifyWith(hk[1], hk[2], signed)

SpecInputs == InitInputs /\ [][NextInputs]_vars

(***************************************************************************)
(* Properties                                                              *)
(***************************************************************************)
Validated == result.op = "validateClaims"
Verified == result.op = "verifyClaims"
ResultOk == IF Validated THEN result.valid ELSE result.verified

Elements(arr) == {arr[i] : i \in DOMAIN arr}

\* role-address set of a document as the data model defines it
RoleAddresses(m) ==
  CASE m["@type"] = "Album" -> Elements(m.artist)
    [] m["@type"] = "Composition" -> Elements(m.composer) \cup Elements(m.lyricist)
    [] m["@type"] = "Recording" -> Elements(m.performer) \cup Elements(m.producer)
    [] OTHER -> {}

\* the public key carried by a schema-valid header
JwkKey(h) ==
  IF h.jwk.crv = "Ed25519"
    THEN decodeBase64(h.jwk.x)
    ELSE secp256k1_compress(decodeBase64(h.jwk.x), decodeBase64(h.jwk.y))

SignedUnder(c, h, sig) ==
  \/ h.jwk.crv = "Ed25519" /\ ed25519_verify(<<encodeBase64(h), encodeBase64(c)>>, JwkKey(h), sig)
  \/ h.jwk.crv = "P-256" /\ secp256k1_verify(<<encodeBase64(h), encodeBase64(c)>>, JwkKey(h), sig)

\* C2: whenever verifyClaims returns true, the header conforms to the Header
\* schema, validateClaims accepts the claims, claims.iss is the address of
\* the key in header.jwk, and the signature verifies over
\* encodedHeader.encodedClaims under that key.
C2_FailClosed ==
  (Verified /\ result.verified) =>
     /\ validateHeader(header)
     /\ validateClaims(claims, meta, schemaClaims, schemaMeta, result.at)
     /\ claims.iss = publicKey2Addr(JwkKey(header))
     /\ SignedUnder(claims, header, signature)

\* a credential whose only defect is a header key other than the issuer's
C2_Witness ==
  /\ Verified
  /\ ~result.verified
  /\ result.logged = "KeyIssuerMismatch"
  /\ SignedUnder(claims, header, signature)
  /\ claims.iss \in RoleAddresses(meta)

\* C4: every claims value validateClaims accepts at clock value now has
\* iat <= now; if exp is present then exp > iat, exp >= now and (nbf present)
\* exp > nbf; if nbf is present then nbf > iat and nbf <= now.
C4_TemporalInvariants ==
  (Validated /\ result.valid) =>
     /\ claims.iat <= result.at
     /\ Has(claims, "exp") =>
          /\ claims.exp > claims.iat
          /\ claims.exp >= result.at
          /\ Has(claims, "nbf") => claims.exp > claims.nbf
     /\ Has(claims, "nbf") =>
          /\ claims.nbf > claims.iat
          /\ claims.nbf <= result.at

\* every invariant of the data model other than expiry holds of a License
OtherwiseValidLicense ==
  /\ schemaClaims = "License"
  /\ validateMeta(meta, schemaMeta)
  /\ License(claims)
  /\ claims.iat <= now
  /\ claims.iss \notin Elements(claims.aud)
  /\ claims.exp > claims.iat
  /\ Has(claims, "nbf") =>
       claims.exp > claims.nbf /\ claims.nbf > claims.iat /\ claims.nbf <= now
  /\ claims.jti = [hash |-> withoutKeys(claims, "jti")]
  /\ claims.sub = getMetaId(meta)
  /\ claims.iss \in RoleAddresses(meta)

\* C5 as stated: an otherwise valid License with exp = now is rejected as
\* Expired, and one with exp = now + 1 is not rejected on the expiry check.
C5_ExpEqualsNowRejected ==
  Validated =>
     /\ (OtherwiseValidLicense /\ claims.exp = now) =>
          (~result.valid /\ result.logged = "Expired")
     /\ (Has(claims, "exp") /\ claims.exp = now + 1) => result.logged # "Expired"

\* C5 amended: the expiry check is strict (exp < now): an otherwise valid
\* License with exp = now is accepted, one with exp = now + 1 is not rejected
\* on the expiry check, and Expired is reported only when exp < now.
C5_ExpiryBoundary ==
  Validated =>
     /\ (OtherwiseValidLicense /\ claims.exp = now) => result.valid
     /\ (Has(claims, "exp") /\ claims.exp \in {now, now + 1}) => result.logged # "Expired"
     /\ result.logged = "Expired" => claims.exp < now

C5_Witness ==
  /\ Validated
  /\ OtherwiseValidLicense
  /\ claims.exp = now
  /\ result.valid

C8_SelfAudience ==
  ((Validated \/ Verified) /\ Has(claims, "aud") /\ claims.iss \in Elements(claims.aud))
     => ~ResultOk

C8_Witness ==
  /\ Verified
  /\ validateHeader(header)
  /\ SignedUnder(claims, header, signature)
  /\ Has(claims, "aud")
  /\ Len(claims.aud) = 2
  /\ claims.iss = claims.aud[2]
  /\ result.logged = "SelfAudience"
  /\ ~result.verified

\* the earliest failing check in the stated order, "none" when all pass
EarliestFailingCheck ==
  IF ~validateHeader(header) THEN "InvalidHeader"
  ELSE IF ~validateSchema(claims, schemaClaims) THEN "SchemaViolation"
  ELSE IF claims.typ \notin {"Create", "License"} THEN "UnsupportedType"
  ELSE IF claims.iat > now THEN "FutureIssuance"
  ELSE IF Has(claims, "aud") /\ claims.iss \in Elements(claims.aud) THEN "SelfAudience"
  ELSE IF Has(claims, "exp") /\ claims.exp <= claims.iat THEN "ExpBeforeIat"
  ELSE IF Has(claims, "exp") /\ Has(claims, "nbf") /\ claims.exp <= claims.nbf
    THEN "ExpBeforeNbf"
  ELSE IF Has(claims, "exp") /\ claims.exp < now THEN "Expired"
  ELSE IF Has(claims, "nbf") /\ claims.nbf <= claims.iat THEN "NbfBeforeIat"
  ELSE IF Has(claims, "nbf") /\ claims.nbf > now THEN "NotYetValid"
  ELSE IF claims.jti # [hash |-> withoutKeys(claims, "jti")] THEN "IdentifierMismatch"
  ELSE IF claims.sub # getMetaId(meta) THEN "SubjectMismatch"
  ELSE IF meta["@type"] \notin {"Album", "Composition", "Recording"}
    THEN "UnsupportedMetadataType"
  ELSE IF claims.iss \notin RoleAddresses(meta) THEN "UnauthorizedIssuer"
  ELSE IF claims.iss # publicKey2Addr(JwkKey(header)) THEN "KeyIssuerMismatch"
  ELSE IF ~SignedUnder(claims, header, signature) THEN "BadSignature"
  ELSE "none"

\* C10: verification evaluates header schema, then the claims checks in the
\* order schema, typ, iat, aud, exp, nbf, jti, sub, role, then key/issuer
\* match, then signature; it stops at the first failing check and the failure
\* kind it surfaces is that of the earliest failing check (stated here for
\* a metadata document that passes validateMeta).
C10_CheckOrder ==
  (Verified /\ validateMeta(meta, schemaMeta)) =>
     /\ result.logged = EarliestFailingCheck
     /\ result.verified <=> (EarliestFailingCheck = "none")

\* C6: a builder called with a key of the wrong length reports an error
\* outcome (InvalidKeyLength) and produces no header value; with a key of
\* the required length it produces the algorithm's header with typ = JWT.
C6_ExplicitBuilderFailure ==
  phase # "idle" /\ phase # "input" =>
     LET required == IF built.builder = "ed25519Header" THEN 32 ELSE 33 IN
       IF built.publicKey.length # required
         THEN built.outcome = "error" /\ ~Has(built, "value")
         ELSE /\ built.value.typ = "JWT"
              /\ built.builder = "ed25519Header" =>
                   /\ built.value.alg = "EdDsa"
                   /\ built.value.jwk.crv = "Ed25519"
                   /\ built.value.jwk.kty = "OKP"
              /\ built.builder = "secp256k1Header" =>
                   /\ built.value.alg = "ES256"
                   /\ built.value.jwk.crv = "P-256"
                   /\ built.value.jwk.kty = "EC"
                   /\ Has(built.value.jwk, "y")

\* the header was built by the builder of the signing keypair's own curve
HeaderOfSigningKey ==
  built.builder = (IF Curve(key) = "Ed25519" THEN "ed25519Header" ELSE "secp256k1Header")

\* C1: claims built as setClaimsId(timestamp(base)) that validateClaims
\* accepts, with iss the address of the signing key, signed by signClaims
\* under the header built from the matching public key, are accepted by
\* verifyClaims, for both key types.
C1_RoundTrip ==
  (/\ phase = "issued"
   /\ Verified
   /\ HeaderOfSigningKey
   /\ claims.iss = Addr(key)
   /\ validateClaims(claims, meta, schemaClaims, schemaMeta, result.at))
  => result.verified

C1_Witness ==
  /\ phase = "issued"
  /\ Verified
  /\ Curve(key) = "secp256k1"
  /\ HeaderOfSigningKey
  /\ claims.typ = "License"
  /\ claims.iss = Addr(key)
  /\ result.verified

\* C3: once an accepted credential has its signature replaced by a different
\* value, or one claims field changed with header and signature kept,
\* verifyClaims returns false.
C3_TamperDetection ==
  (phase = "tampered" /\ Verified) => ~result.verified

C3_Witness ==
  /\ phase = "tampered"
  /\ Verified
  /\ signature = orig.signature
  /\ Has(claims, "exp")
  /\ claims.exp # orig.claims.exp
  /\ ~result.verified

\* a correctly signed License without nbf, granted to other parties by an
\* issuer authorized for the document
SignedLicense ==
  /\ phase = "issued"
  /\ claims.typ = "License"
  /\ ~Has(claims, "nbf")
  /\ claims.exp > claims.iat
  /\ HeaderOfSigningKey
  /\ claims.iss = Addr(key)
  /\ claims.iss \in RoleAddresses(meta)
  /\ claims.iss \notin Elements(claims.aud)

====
